---------------------------- MODULE Spec2Model ----------------------------
(***************************************************************************)
(* Model of the "Diretor de IA" Flask microservice (diretor_app.py):       *)
(* module start-up (loading emocoes.json), get_all_tags_string, and the    *)
(* three routes /, /health and POST /api/humanize-text.                    *)
(*                                                                         *)
(* Python str values are modelled as sequences of Unicode code points, so  *)
(* that sorted() (code-point order), str.strip(), ", ".join and f-string   *)
(* concatenation are computed as Python computes them.                     *)
(***************************************************************************)
EXTENDS Integers, Sequences, FiniteSets, TLC

VARIABLES
    emocoes_json,            \* the file emocoes.json as found at start-up
    environ,                 \* os.environ entry GEMINI_API_KEY
    appState,                \* "starting", "running" or "crashed"
    emotion_tags_data,       \* module global bound at lines 23-27
    genai_api_key,           \* key last given to genai.configure
    pc,                      \* position of the request being handled
    route,                   \* route of the request being handled
    body,                    \* JSON body of the request being handled
    bodyRead,                \* request.get_json() has been called
    final_prompt,            \* local of humanize_text_endpoint
    available_tags,          \* local of humanize_text_endpoint
    prompt_com_ferramentas,  \* local of humanize_text_endpoint
    modelCalls,              \* calls of model.generate_content in this request
    modelText,               \* response.text as returned by the model
    exc,                     \* exception caught by the except clause
    log,                     \* lines printed while handling this request
    response                 \* HTTP response returned for this request

vars == <<emocoes_json, environ, appState, emotion_tags_data, genai_api_key,
          pc, route, body, bodyRead, final_prompt, available_tags,
          prompt_com_ferramentas, modelCalls, modelText, exc, log, response>>

-----------------------------------------------------------------------------
(* String literals of the source, as code points.                          *)

\* NoTagsMsg: the text "Nenhuma tag disponivel." as code points
NoTagsMsg ==
    <<78, 101, 110, 104, 117, 109, 97, 32, 116, 97, 103, 32, 100, 105, 115,
      112, 111, 110, 237, 118, 101, 108, 46>>

\* BREATH: the text "<breath>" as code points
BREATH ==
    <<60, 98, 114, 101, 97, 116, 104, 62>>

\* EMPHASIS_SOFT: the text "<emphasis_soft>" as code points
EMPHASIS_SOFT ==
    <<60, 101, 109, 112, 104, 97, 115, 105, 115, 95, 115, 111, 102, 116, 62>>

\* EMPHASIS_MEDIUM: the text "<emphasis_medium>" as code points
EMPHASIS_MEDIUM ==
    <<60, 101, 109, 112, 104, 97, 115, 105, 115, 95, 109, 101, 100, 105,
      117, 109, 62>>

\* EMPHASIS_STRONG: the text "<emphasis_strong>" as code points
EMPHASIS_STRONG ==
    <<60, 101, 109, 112, 104, 97, 115, 105, 115, 95, 115, 116, 114, 111,
      110, 103, 62>>

\* Separator: the text ", " as code points
Separator ==
    <<44, 32>>

\* ConfigErrorMsg: the text "Configuracao do servidor Gemini incompleta." as code points
ConfigErrorMsg ==
    <<67, 111, 110, 102, 105, 103, 117, 114, 97, 231, 227, 111, 32, 100,
      111, 32, 115, 101, 114, 118, 105, 100, 111, 114, 32, 71, 101, 109,
      105, 110, 105, 32, 105, 110, 99, 111, 109, 112, 108, 101, 116, 97, 46>>

\* InvalidRequestMsg: the text "Requisicao invalida. O 'prompt' nao pode estar vazio." as code points
InvalidRequestMsg ==
    <<82, 101, 113, 117, 105, 115, 105, 231, 227, 111, 32, 105, 110, 118,
      225, 108, 105, 100, 97, 46, 32, 79, 32, 39, 112, 114, 111, 109, 112,
      116, 39, 32, 110, 227, 111, 32, 112, 111, 100, 101, 32, 101, 115,
      116, 97, 114, 32, 118, 97, 122, 105, 111, 46>>

\* ReminderText: the text "\n\nLEMBRE-SE: Sua resposta deve conter APENAS o texto modificado com as tags inseridas. Nao inclua nenhuma explicacao, prefacio, ou qualquer texto adicional. As tags de estilo e emocao que voce pode usar sao: " as code points
ReminderText ==
    <<10, 10, 76, 69, 77, 66, 82, 69, 45, 83, 69, 58, 32, 83, 117, 97, 32,
      114, 101, 115, 112, 111, 115, 116, 97, 32, 100, 101, 118, 101, 32,
      99, 111, 110, 116, 101, 114, 32, 65, 80, 69, 78, 65, 83, 32, 111, 32,
      116, 101, 120, 116, 111, 32, 109, 111, 100, 105, 102, 105, 99, 97,
      100, 111, 32, 99, 111, 109, 32, 97, 115, 32, 116, 97, 103, 115, 32,
      105, 110, 115, 101, 114, 105, 100, 97, 115, 46, 32, 78, 227, 111, 32,
      105, 110, 99, 108, 117, 97, 32, 110, 101, 110, 104, 117, 109, 97, 32,
      101, 120, 112, 108, 105, 99, 97, 231, 227, 111, 44, 32, 112, 114,
      101, 102, 225, 99, 105, 111, 44, 32, 111, 117, 32, 113, 117, 97, 108,
      113, 117, 101, 114, 32, 116, 101, 120, 116, 111, 32, 97, 100, 105,
      99, 105, 111, 110, 97, 108, 46, 32, 65, 115, 32, 116, 97, 103, 115,
      32, 100, 101, 32, 101, 115, 116, 105, 108, 111, 32, 101, 32, 101,
      109, 111, 231, 227, 111, 32, 113, 117, 101, 32, 118, 111, 99, 234,
      32, 112, 111, 100, 101, 32, 117, 115, 97, 114, 32, 115, 227, 111, 58,
      32>>

\* FullStop: the text "." as code points
FullStop ==
    <<46>>

\* EmptyAnswerMsg: the text "A IA retornou uma resposta vazia. Tente ajustar o texto ou o prompt." as code points
EmptyAnswerMsg ==
    <<65, 32, 73, 65, 32, 114, 101, 116, 111, 114, 110, 111, 117, 32, 117,
      109, 97, 32, 114, 101, 115, 112, 111, 115, 116, 97, 32, 118, 97, 122,
      105, 97, 46, 32, 84, 101, 110, 116, 101, 32, 97, 106, 117, 115, 116,
      97, 114, 32, 111, 32, 116, 101, 120, 116, 111, 32, 111, 117, 32, 111,
      32, 112, 114, 111, 109, 112, 116, 46>>

\* LogPrefix: the text "Erro na API Gemini (Diretor de IA): " as code points
LogPrefix ==
    <<69, 114, 114, 111, 32, 110, 97, 32, 65, 80, 73, 32, 71, 101, 109,
      105, 110, 105, 32, 40, 68, 105, 114, 101, 116, 111, 114, 32, 100,
      101, 32, 73, 65, 41, 58, 32>>

\* InternalErrorPrefix: the text "Erro interno ao processar o texto com a IA: " as code points
InternalErrorPrefix ==
    <<69, 114, 114, 111, 32, 105, 110, 116, 101, 114, 110, 111, 32, 97,
      111, 32, 112, 114, 111, 99, 101, 115, 115, 97, 114, 32, 111, 32, 116,
      101, 120, 116, 111, 32, 99, 111, 109, 32, 97, 32, 73, 65, 58, 32>>

\* HomeText: the text "Servico Diretor de IA (analisador-l2gs) esta online." as code points
HomeText ==
    <<83, 101, 114, 118, 105, 231, 111, 32, 68, 105, 114, 101, 116, 111,
      114, 32, 100, 101, 32, 73, 65, 32, 40, 97, 110, 97, 108, 105, 115,
      97, 100, 111, 114, 45, 108, 50, 103, 115, 41, 32, 101, 115, 116, 225,
      32, 111, 110, 108, 105, 110, 101, 46>>

\* HealthText: the text "API is awake and healthy." as code points
HealthText ==
    <<65, 80, 73, 32, 105, 115, 32, 97, 119, 97, 107, 101, 32, 97, 110,
      100, 32, 104, 101, 97, 108, 116, 104, 121, 46>>

\* KeyErrorComando: the text "'comando'" as code points
KeyErrorComando ==
    <<39, 99, 111, 109, 97, 110, 100, 111, 39>>

-----------------------------------------------------------------------------
(* Sample texts from which the inputs are drawn.                           *)

\* FELIZ: the text "<feliz>" as code points
FELIZ ==
    <<60, 102, 101, 108, 105, 122, 62>>

\* ZEN: the text "<Zen>" as code points
ZEN ==
    <<60, 90, 101, 110, 62>>

\* FEL: the text "<fel" as code points
FEL ==
    <<60, 102, 101, 108>>

\* DigaOi: the text "Diga oi" as code points
DigaOi ==
    <<68, 105, 103, 97, 32, 111, 105>>

\* Blank: the text " \n" as code points
Blank ==
    <<32, 10>>

\* OiPadded: the text " oi\n" as code points
OiPadded ==
    <<32, 111, 105, 10>>

\* Oi: the text "oi" as code points
Oi ==
    <<111, 105>>

\* QuotaMsg: the text "quota" as code points
QuotaMsg ==
    <<113, 117, 111, 116, 97>>

\* BlockedMsg: the text "blocked" as code points
BlockedMsg ==
    <<98, 108, 111, 99, 107, 101, 100>>

\* SomeKey: the text "k" as code points
SomeKey ==
    <<107>>

\* SpecExampleTagList: the text "<feliz>, <breath>, <emphasis_soft>, <emphasis_medium>, <emphasis_strong>" as code points
SpecExampleTagList ==
    <<60, 102, 101, 108, 105, 122, 62, 44, 32, 60, 98, 114, 101, 97, 116,
      104, 62, 44, 32, 60, 101, 109, 112, 104, 97, 115, 105, 115, 95, 115,
      111, 102, 116, 62, 44, 32, 60, 101, 109, 112, 104, 97, 115, 105, 115,
      95, 109, 101, 100, 105, 117, 109, 62, 44, 32, 60, 101, 109, 112, 104,
      97, 115, 105, 115, 95, 115, 116, 114, 111, 110, 103, 62>>

\* SortedExampleTagList: the text "<breath>, <emphasis_medium>, <emphasis_soft>, <emphasis_strong>, <feliz>" as code points
SortedExampleTagList ==
    <<60, 98, 114, 101, 97, 116, 104, 62, 44, 32, 60, 101, 109, 112, 104,
      97, 115, 105, 115, 95, 109, 101, 100, 105, 117, 109, 62, 44, 32, 60,
      101, 109, 112, 104, 97, 115, 105, 115, 95, 115, 111, 102, 116, 62,
      44, 32, 60, 101, 109, 112, 104, 97, 115, 105, 115, 95, 115, 116, 114,
      111, 110, 103, 62, 44, 32, 60, 102, 101, 108, 105, 122, 62>>

-----------------------------------------------------------------------------
(* Bounds and the sets the inputs are drawn from.                          *)

\* Largest number of entries in one category of emocoes.json.
MaxEntries == 1

CategoryNames == {"alegria", "pausa"}

TokenSet == {FELIZ, FEL, ZEN, BREATH}

\* An entry of a category: a JSON object, with or without the key 'comando'.
Entries == {[comando |-> t] : t \in TokenSet} \cup {[descricao |-> Oi]}

EntrySeqs == UNION {[1..n -> Entries] : n \in 0..MaxEntries}

EmptyVocabulary == [c \in {} |-> <<>>]

Vocabularies == UNION {[C -> EntrySeqs] : C \in SUBSET CategoryNames}

FileStates ==
    {[kind |-> "missing", data |-> EmptyVocabulary],
     [kind |-> "malformed", data |-> EmptyVocabulary]}
    \cup {[kind |-> "ok", data |-> v] : v \in Vocabularies}

EnvValues ==
    {[set |-> FALSE, value |-> <<>>],
     [set |-> TRUE, value |-> <<>>],
     [set |-> TRUE, value |-> SomeKey]}

PromptValues == {<<>>, Blank, DigaOi}

NoFields == [k \in {} |-> <<>>]

\* Parsed JSON bodies: null, an array, or an object with string fields.
NullBody == [kind |-> "null", len |-> 0, fields |-> NoFields]

Bodies ==
    {NullBody}
    \cup {[kind |-> "array", len |-> n, fields |-> NoFields] : n \in {0, 1}}
    \cup {[kind |-> "object", len |-> 0, fields |-> NoFields]}
    \cup {[kind |-> "object", len |-> 0, fields |-> [text |-> Oi]]}
    \cup {[kind |-> "object", len |-> 0, fields |-> [prompt |-> p]] :
             p \in PromptValues}

ModelTexts == {<<>>, Blank, OiPadded, DigaOi}

GenerateErrors == {QuotaMsg}

TextErrors == {BlockedMsg}

-----------------------------------------------------------------------------
(* Python built-ins used by the source.                                    *)

\* Code points for which str.isspace() is true; str.strip() removes these.
PythonWhitespace ==
    {9, 10, 11, 12, 13, 28, 29, 30, 31, 32, 133, 160, 5760, 8232, 8233,
     8239, 8287, 12288} \cup (8192..8202)

IsSpace_OnlyBlank(c) == c = 32

IsSpace(c) == c \in PythonWhitespace

RECURSIVE LStrip(_)
LStrip(s) ==
    IF s = <<>> THEN <<>>
    ELSE IF IsSpace(Head(s)) THEN LStrip(Tail(s)) ELSE s

RECURSIVE RStrip(_)
RStrip(s) ==
    IF s = <<>> THEN <<>>
    ELSE IF IsSpace(s[Len(s)]) THEN RStrip(SubSeq(s, 1, Len(s) - 1)) ELSE s

Strip_LeftOnly(s) == LStrip(s)

\* str.strip()
Strip(s) == RStrip(LStrip(s))

StrLess_ByLength(a, b) == Len(a) < Len(b)

\* a < b on Python str: code-point order, a proper prefix sorts first.
StrLess(a, b) ==
    LET n == IF Len(a) < Len(b) THEN Len(a) ELSE Len(b)
        D == {i \in 1..n : a[i] # b[i]}
    IN  IF D = {} THEN Len(a) < Len(b)
        ELSE LET i == CHOOSE j \in D : \A k \in D : j <= k
             IN  a[i] < b[i]

RECURSIVE Insert(_, _)
Insert(x, s) ==
    IF s = <<>> THEN <<x>>
    ELSE IF StrLess(x, Head(s)) THEN <<x>> \o s
    ELSE <<Head(s)>> \o Insert(x, Tail(s))

\* sorted(list)
RECURSIVE Sorted(_)
Sorted(s) ==
    IF s = <<>> THEN <<>>
    ELSE Insert(s[Len(s)], Sorted(SubSeq(s, 1, Len(s) - 1)))

RECURSIVE SetToList(_)
SetToList(S) ==
    IF S = {} THEN <<>>
    ELSE LET x == CHOOSE y \in S : TRUE
         IN  <<x>> \o SetToList(S \ {x})

Dedup_Keep(l) == l

\* list(set(l)); the order of the result is unspecified and sorted away.
Dedup(l) == SetToList({l[i] : i \in DOMAIN l})

\* sep.join(l)
Join(sep, l) ==
    LET RECURSIVE J(_)
        J(r) == IF r = <<>> THEN <<>>
                ELSE IF Len(r) = 1 THEN r[1]
                ELSE r[1] \o sep \o J(Tail(r))
    IN  J(l)

-----------------------------------------------------------------------------
(* Start-up: lines 23-27.                                                  *)

LoadVocabulary_NoFallback(file) ==
    IF file.kind = "ok"
    THEN [state |-> "running", data |-> file.data]
    ELSE [state |-> "crashed", data |-> EmptyVocabulary]

\* open() raises FileNotFoundError for a missing file, which is caught;
\* json.load raises JSONDecodeError for malformed content, which is not.
LoadVocabulary(file) ==
    CASE file.kind = "ok"        -> [state |-> "running", data |-> file.data]
      [] file.kind = "missing"   -> [state |-> "running",
                                     data |-> EmptyVocabulary]
      [] file.kind = "malformed" -> [state |-> "crashed",
                                     data |-> EmptyVocabulary]

-----------------------------------------------------------------------------
(* get_all_tags_string: lines 29-40.                                       *)

BuiltinTags == <<BREATH, EMPHASIS_SOFT, EMPHASIS_MEDIUM, EMPHASIS_STRONG>>

\* The inner loop over one category.
RECURSIVE CategoryCommands(_)
CategoryCommands(category) ==
    IF category = <<>> THEN <<>>
    ELSE <<Head(category).comando>> \o CategoryCommands(Tail(category))

\* The outer loop over emotion_tags_data.values().
RECURSIVE AllTags(_, _)
AllTags(data, names) ==
    IF names = {} THEN <<>>
    ELSE LET c == CHOOSE n \in names : TRUE
         IN  CategoryCommands(data[c]) \o AllTags(data, names \ {c})

\* item['comando'] raises KeyError for an entry without that key.
MissingComando(data) ==
    \E c \in DOMAIN data : \E i \in DOMAIN data[c] :
        "comando" \notin DOMAIN data[c][i]

\* The result is a return value or a raised exception (its str()).
get_all_tags_string(data) ==
    IF DOMAIN data = {}
    THEN [raised |-> FALSE, value |-> NoTagsMsg]
    ELSE IF MissingComando(data)
    THEN [raised |-> TRUE, value |-> KeyErrorComando]
    ELSE [raised |-> FALSE,
          value |-> Join(Separator,
                         Sorted(Dedup(AllTags(data, DOMAIN data)
                                      \o BuiltinTags)))]

-----------------------------------------------------------------------------
(* Helpers of humanize_text_endpoint: lines 60-115.                        *)

Resp(status, kind, text) == [status |-> status, kind |-> kind, text |-> text]

\* No response has been returned yet.
NoResponse == Resp(0, "none", <<>>)

NoException == [raised |-> FALSE, msg |-> <<>>]

CredentialMissing_NoneOnly(key) == ~key.set

\* not gemini_api_key: os.environ.get gave None or the empty string.
CredentialMissing(key) == ~key.set \/ key.value = <<>>

\* bool(data) for the value request.get_json() returned.
Truthy(data) ==
    CASE data.kind = "null"   -> FALSE
      [] data.kind = "array"  -> data.len > 0
      [] data.kind = "object" -> DOMAIN data.fields # {}

ValidateInput_PresenceOnly(data) ==
    IF ~Truthy(data) THEN "invalid"
    ELSE IF data.kind = "array" THEN "AttributeError"
    ELSE IF "prompt" \notin DOMAIN data.fields THEN "invalid"
    ELSE "valid"

\* not data or not data.get('prompt'); a list has no attribute get.
ValidateInput(data) ==
    IF ~Truthy(data) THEN "invalid"
    ELSE IF data.kind = "array" THEN "AttributeError"
    ELSE IF "prompt" \notin DOMAIN data.fields
            \/ data.fields.prompt = <<>> THEN "invalid"
    ELSE "valid"

\* The f-string of lines 92-97.
Compose(prompt, tags) == prompt \o ReminderText \o tags \o FullStop

LogLine(e) == LogPrefix \o e

ErrorText_Generic(e) == InternalErrorPrefix

\* The error field built at line 115.
ErrorText(e) == InternalErrorPrefix \o e

-----------------------------------------------------------------------------
(* State machine.                                                          *)

Init ==
    /\ emocoes_json \in FileStates
    /\ environ \in EnvValues
    /\ appState = "starting"
    /\ emotion_tags_data = EmptyVocabulary
    /\ genai_api_key = <<>>
    /\ pc = "idle"
    /\ route = "none"
    /\ body = NullBody
    /\ bodyRead = FALSE
    /\ final_prompt = <<>>
    /\ available_tags = <<>>
    /\ prompt_com_ferramentas = <<>>
    /\ modelCalls = 0
    /\ modelText = <<>>
    /\ exc = NoException
    /\ log = <<>>
    /\ response = NoResponse

\* Module import: the try/except around the load of emocoes.json.
Startup ==
    /\ appState = "starting"
    /\ LET r == LoadVocabulary(emocoes_json)
       IN  /\ appState' = r.state
           /\ emotion_tags_data' = r.data
    /\ UNCHANGED <<emocoes_json, environ, genai_api_key, pc, route, body,
                   bodyRead, final_prompt, available_tags,
                   prompt_com_ferramentas, modelCalls, modelText, exc, log,
                   response>>

\* A new request is dispatched; nothing of the previous request is kept.
NewRequest(r, b) ==
    /\ appState = "running"
    /\ pc \in {"idle", "done"}
    /\ route' = r
    /\ body' = b
    /\ bodyRead' = FALSE
    /\ final_prompt' = <<>>
    /\ available_tags' = <<>>
    /\ prompt_com_ferramentas' = <<>>
    /\ modelCalls' = 0
    /\ modelText' = <<>>
    /\ exc' = NoException
    /\ log' = <<>>
    /\ UNCHANGED <<emocoes_json, environ, appState, emotion_tags_data,
                   genai_api_key>>

home ==
    /\ NewRequest("home", NullBody)
    /\ response' = Resp(200, "text", HomeText)
    /\ pc' = "done"

health_check ==
    /\ NewRequest("health", NullBody)
    /\ response' = Resp(200, "text", HealthText)
    /\ pc' = "done"

\* POST /api/humanize-text arrives with a JSON body.
BeginHumanize ==
    \E b \in Bodies :
        /\ NewRequest("humanize", b)
        /\ response' = NoResponse
        /\ pc' = "AwaitingCredential"

\* Lines 67-69.
CheckCredential ==
    /\ pc = "AwaitingCredential"
    /\ IF CredentialMissing(environ)
       THEN /\ response' = Resp(500, "error", ConfigErrorMsg)
            /\ pc' = "done"
       ELSE /\ response' = response
            /\ pc' = "AwaitingValidInput"
    /\ UNCHANGED <<emocoes_json, environ, appState, emotion_tags_data,
                   genai_api_key, route, body, bodyRead, final_prompt,
                   available_tags, prompt_com_ferramentas, modelCalls,
                   modelText, exc, log>>

\* Lines 71-78. An AttributeError here is outside the try block: Flask
\* answers with its own 500 page.
CheckInput ==
    /\ pc = "AwaitingValidInput"
    /\ bodyRead' = TRUE
    /\ LET v == ValidateInput(body)
       IN  CASE v = "invalid" ->
                  /\ response' = Resp(400, "error", InvalidRequestMsg)
                  /\ final_prompt' = final_prompt
                  /\ pc' = "done"
             [] v = "AttributeError" ->
                  /\ response' = Resp(500, "unhandled", <<>>)
                  /\ final_prompt' = final_prompt
                  /\ pc' = "done"
             [] v = "valid" ->
                  /\ response' = response
                  /\ final_prompt' = body.fields.prompt
                  /\ pc' = "Invoking"
    /\ UNCHANGED <<emocoes_json, environ, appState, emotion_tags_data,
                   genai_api_key, route, body, available_tags,
                   prompt_com_ferramentas, modelCalls, modelText, exc, log>>

\* Lines 83-88: genai.configure, the model object, get_all_tags_string().
BuildTags ==
    /\ pc = "Invoking"
    /\ genai_api_key' = environ.value
    /\ LET r == get_all_tags_string(emotion_tags_data)
       IN  IF r.raised
           THEN /\ exc' = [raised |-> TRUE, msg |-> r.value]
                /\ available_tags' = available_tags
                /\ pc' = "Except"
           ELSE /\ exc' = exc
                /\ available_tags' = r.value
                /\ pc' = "Composing"
    /\ UNCHANGED <<emocoes_json, environ, appState, emotion_tags_data, route,
                   body, bodyRead, final_prompt, prompt_com_ferramentas,
                   modelCalls, modelText, log, response>>

\* Lines 92-97.
ComposePrompt ==
    /\ pc = "Composing"
    /\ prompt_com_ferramentas' = Compose(final_prompt, available_tags)
    /\ pc' = "Calling"
    /\ UNCHANGED <<emocoes_json, environ, appState, emotion_tags_data,
                   genai_api_key, route, body, bodyRead, final_prompt,
                   available_tags, modelCalls, modelText, exc, log, response>>

\* Line 99 and the read of response.text at line 103: the model answers.
ModelReturnsText ==
    \E t \in ModelTexts :
        /\ pc = "Calling"
        /\ modelCalls' = modelCalls + 1
        /\ modelText' = t
        /\ pc' = "Responding"
        /\ UNCHANGED <<emocoes_json, environ, appState, emotion_tags_data,
                       genai_api_key, route, body, bodyRead, final_prompt,
                       available_tags, prompt_com_ferramentas, exc, log,
                       response>>

\* Line 99: generate_content raises.
GenerateContentRaises ==
    \E e \in GenerateErrors :
        /\ pc = "Calling"
        /\ modelCalls' = modelCalls + 1
        /\ exc' = [raised |-> TRUE, msg |-> e]
        /\ pc' = "Except"
        /\ UNCHANGED <<emocoes_json, environ, appState, emotion_tags_data,
                       genai_api_key, route, body, bodyRead, final_prompt,
                       available_tags, prompt_com_ferramentas, modelText,
                       log, response>>

\* Line 103: generate_content returned, but response.text raises.
ResponseTextRaises ==
    \E e \in TextErrors :
        /\ pc = "Calling"
        /\ modelCalls' = modelCalls + 1
        /\ exc' = [raised |-> TRUE, msg |-> e]
        /\ pc' = "Except"
        /\ UNCHANGED <<emocoes_json, environ, appState, emotion_tags_data,
                       genai_api_key, route, body, bodyRead, final_prompt,
                       available_tags, prompt_com_ferramentas, modelText,
                       log, response>>

\* Lines 103-111.
Respond ==
    /\ pc = "Responding"
    /\ LET humanized_text == Strip(modelText)
       IN  response' = IF humanized_text = <<>>
                       THEN Resp(500, "error", EmptyAnswerMsg)
                       ELSE Resp(200, "success", humanized_text)
    /\ pc' = "done"
    /\ UNCHANGED <<emocoes_json, environ, appState, emotion_tags_data,
                   genai_api_key, route, body, bodyRead, final_prompt,
                   available_tags, prompt_com_ferramentas, modelCalls,
                   modelText, exc, log>>

\* Line 114.
LogException ==
    /\ pc = "Except"
    /\ log' = Append(log, LogLine(exc.msg))
    /\ pc' = "ExceptResponding"
    /\ UNCHANGED <<emocoes_json, environ, appState, emotion_tags_data,
                   genai_api_key, route, body, bodyRead, final_prompt,
                   available_tags, prompt_com_ferramentas, modelCalls,
                   modelText, exc, response>>

\* Line 115.
RespondError ==
    /\ pc = "ExceptResponding"
    /\ response' = Resp(500, "error", ErrorText(exc.msg))
    /\ pc' = "done"
    /\ UNCHANGED <<emocoes_json, environ, appState, emotion_tags_data,
                   genai_api_key, route, body, bodyRead, final_prompt,
                   available_tags, prompt_com_ferramentas, modelCalls,
                   modelText, exc, log>>

Next ==
    \/ Startup
    \/ home
    \/ health_check
    \/ BeginHumanize
    \/ CheckCredential
    \/ CheckInput
    \/ BuildTags
    \/ ComposePrompt
    \/ ModelReturnsText
    \/ GenerateContentRaises
    \/ ResponseTextRaises
    \/ Respond
    \/ LogException
    \/ RespondError

Spec == Init /\ [][Next]_vars

-----------------------------------------------------------------------------
(* Vocabulary of the properties.                                           *)

\* t occurs in s as a contiguous substring.
Contains(s, t) ==
    \E i \in 0..(Len(s) - Len(t)) : SubSeq(s, i + 1, i + Len(t)) = t

\* The credential is unset or the empty string.
CredentialAbsent == ~environ.set \/ Len(environ.value) = 0

AllWhitespace(s) == \A i \in DOMAIN s : s[i] \in PythonWhitespace

\* t is s without its leading and trailing whitespace.
IsTrimOf(t, s) ==
    /\ t # <<>> => (t[1] \notin PythonWhitespace
                    /\ t[Len(t)] \notin PythonWhitespace)
    /\ \E i \in 0..Len(s) : \E j \in i..Len(s) :
          /\ t = SubSeq(s, i + 1, j)
          /\ AllWhitespace(SubSeq(s, 1, i))
          /\ AllWhitespace(SubSeq(s, j + 1, Len(s)))

HasPrompt(b) == b.kind = "object" /\ "prompt" \in DOMAIN b.fields

\* The model was called and handed back a text.
ModelAnswered == modelCalls = 1 /\ ~exc.raised

\* The instruction for the model has been composed.
Composed == Len(prompt_com_ferramentas) > 0

\* get_all_tags_string has returned a value in this request.
TagsBuilt == Len(available_tags) > 0

\* The command tokens of the loaded vocabulary.
VocabularyCommands ==
    UNION {{emotion_tags_data[c][i].comando : i \in DOMAIN emotion_tags_data[c]}
              : c \in DOMAIN emotion_tags_data}

BuiltinSet == {BREATH, EMPHASIS_SOFT, EMPHASIS_MEDIUM, EMPHASIS_STRONG}

\* a comes before b in code-point (lexicographic) order.
RECURSIVE Before(_, _)
Before(a, b) ==
    IF b = <<>> THEN FALSE
    ELSE IF a = <<>> THEN TRUE
    ELSE IF Head(a) = Head(b) THEN Before(Tail(a), Tail(b))
    ELSE Head(a) < Head(b)

\* The tokens of S, each once, in ascending order.
Ascending(S) ==
    [i \in 1..Cardinality(S) |->
        CHOOSE t \in S : Cardinality({u \in S : Before(u, t)}) = i - 1]

\* The elements of l with ", " between neighbours.
RECURSIVE CommaSpaceList(_, _)
CommaSpaceList(l, n) ==
    IF n = 0 THEN <<>>
    ELSE IF n = 1 THEN l[1]
    ELSE CommaSpaceList(l, n - 1) \o <<44, 32>> \o l[n]

\* The tag lists that hold the four built-in tags and nothing else.
BuiltinOnlyLists ==
    {CommaSpaceList([i \in 1..4 |-> BuiltinTags[p[i]]], 4) :
        p \in {q \in [1..4 -> 1..4] : \A i, j \in 1..4 : q[i] = q[j] => i = j}}

ExampleVocabulary == [alegria |-> <<[comando |-> FELIZ]>>]

-----------------------------------------------------------------------------
(* Properties.                                                             *)

\* C1: when the credential is unset or empty, a call of POST
\* /api/humanize-text ends with HTTP 500 and, in that request, the model is
\* never called and the request body is never read.
C1_NoCredentialFailsFirst ==
    (route = "humanize" /\ CredentialAbsent) =>
        /\ pc \in {"AwaitingCredential", "done"}
        /\ modelCalls = 0
        /\ ~bodyRead
        /\ Len(genai_api_key) = 0
        /\ pc = "done" => response = Resp(500, "error", ConfigErrorMsg)

C1_Witness ==
    /\ route = "humanize"
    /\ environ.set /\ environ.value = <<>>
    /\ pc = "done"
    /\ response.status = 500

\* C2 as stated: a request whose prompt is missing, empty or whitespace-only
\* ends with HTTP 400 whatever the credential is.
C2_Original ==
    (/\ route = "humanize"
     /\ pc = "done"
     /\ body.kind = "object"
     /\ HasPrompt(body) => AllWhitespace(body.fields.prompt))
        => response.status = 400

\* C2 amended: with the credential set, a request whose JSON body is null,
\* empty, or an object whose prompt is missing or the empty string ends with
\* HTTP 400 and no model call; a whitespace-only prompt is accepted and
\* handed on to the model stage; with the credential unset or empty the
\* request ends with HTTP 500 whatever the prompt is.
C2_Amended ==
    (route = "humanize" /\ pc = "done") =>
        /\ (/\ ~CredentialAbsent
            /\ \/ body.kind = "null"
               \/ body.kind = "array" /\ body.len = 0
               \/ body.kind = "object" /\ ~HasPrompt(body)
               \/ HasPrompt(body) /\ Len(body.fields.prompt) = 0)
              => (response = Resp(400, "error", InvalidRequestMsg)
                  /\ modelCalls = 0)
        /\ (/\ ~CredentialAbsent
            /\ HasPrompt(body)
            /\ Len(body.fields.prompt) > 0
            /\ AllWhitespace(body.fields.prompt))
              => (response.status # 400
                  /\ final_prompt = body.fields.prompt)
        /\ CredentialAbsent => response.status = 500

C2_Witness ==
    /\ route = "humanize"
    /\ pc = "done"
    /\ environ.set /\ environ.value = SomeKey
    /\ HasPrompt(body) /\ body.fields.prompt = <<>>
    /\ response.status = 400

\* C3 as stated: with a non-empty prompt, a credential that is set and a
\* model call that returns text, the request ends with HTTP 200, success and
\* the model's text without its leading and trailing whitespace.
C3_Original ==
    (/\ route = "humanize"
     /\ pc = "done"
     /\ ~CredentialAbsent
     /\ HasPrompt(body) /\ Len(body.fields.prompt) > 0
     /\ ModelAnswered)
        => /\ response.status = 200
           /\ response.kind = "success"
           /\ IsTrimOf(response.text, modelText)

\* C3 amended: the same, provided the model's text is not empty or
\* whitespace-only.
C3_Amended ==
    (/\ route = "humanize"
     /\ pc = "done"
     /\ ~CredentialAbsent
     /\ HasPrompt(body) /\ Len(body.fields.prompt) > 0
     /\ ModelAnswered
     /\ ~AllWhitespace(modelText))
        => /\ response.status = 200
           /\ response.kind = "success"
           /\ IsTrimOf(response.text, modelText)

C3_Witness ==
    /\ route = "humanize"
    /\ pc = "done"
    /\ body.kind = "object" /\ body.fields = [prompt |-> DigaOi]
    /\ modelText = OiPadded
    /\ response = Resp(200, "success", Oi)

\* C4: when the model returns an empty or whitespace-only text, the request
\* ends with HTTP 500 and an error payload, and a 200 is never returned.
C4_BlankAnswerIsError ==
    (route = "humanize" /\ ModelAnswered /\ AllWhitespace(modelText)) =>
        /\ response.status # 200
        /\ response.kind # "success"
        /\ pc = "done" => response = Resp(500, "error", EmptyAnswerMsg)

C4_Witness ==
    /\ route = "humanize"
    /\ pc = "done"
    /\ modelCalls = 1
    /\ modelText = Blank
    /\ response.status = 500
    /\ response.kind = "error"

\* C5: for every loaded vocabulary, the empty one included, the composed
\* instruction contains the prompt verbatim, every command token of the
\* vocabulary and the four built-in tags.
C5_Original ==
    Composed =>
        /\ Contains(prompt_com_ferramentas, final_prompt)
        /\ \A t \in VocabularyCommands : Contains(prompt_com_ferramentas, t)
        /\ \A t \in BuiltinSet : Contains(prompt_com_ferramentas, t)

\* C6: when emocoes.json is missing, the tag list of the composed
\* instruction holds exactly the four built-in tags.
C6_Original ==
    (emocoes_json.kind = "missing" /\ Composed) =>
        /\ available_tags \in BuiltinOnlyLists
        /\ \E l \in BuiltinOnlyLists :
              prompt_com_ferramentas =
                  final_prompt \o ReminderText \o l \o FullStop

\* C7 as stated: with emocoes.json absent or malformed, start-up completes
\* with an empty vocabulary.
C7_Original ==
    (emocoes_json.kind \in {"missing", "malformed"} /\ appState # "starting")
        => (appState = "running" /\ DOMAIN emotion_tags_data = {})

\* C7 amended: with emocoes.json absent, start-up completes with an empty
\* vocabulary and requests are handled afterwards; with malformed content
\* the parse error is not caught, start-up aborts and no request is handled.
C7_Amended ==
    appState # "starting" =>
        /\ emocoes_json.kind = "missing" =>
              (appState = "running" /\ DOMAIN emotion_tags_data = {})
        /\ emocoes_json.kind = "malformed" =>
              (appState = "crashed" /\ pc = "idle" /\ response = NoResponse)

C7_Witness ==
    /\ emocoes_json.kind = "missing"
    /\ appState = "running"
    /\ DOMAIN emotion_tags_data = {}
    /\ route = "humanize"
    /\ pc = "done"
    /\ response.status = 200

\* C8: for a non-empty vocabulary, get_all_tags_string returns the command
\* tokens of all categories and the four built-in tags, each distinct token
\* once, in ascending lexicographic order, joined by ", ".
C8_SortedDistinctTags ==
    (TagsBuilt /\ DOMAIN emotion_tags_data # {}) =>
        LET S == VocabularyCommands \cup BuiltinSet
        IN  available_tags = CommaSpaceList(Ascending(S), Cardinality(S))

C8_Witness ==
    /\ TagsBuilt
    /\ DOMAIN emotion_tags_data = {"alegria", "pausa"}
    /\ emotion_tags_data["alegria"] = <<[comando |-> ZEN]>>
    /\ emotion_tags_data["pausa"] = <<[comando |-> ZEN]>>

\* C9 as stated: with the vocabulary {"alegria": [{"comando": "<feliz>"}]}
\* and the prompt "Diga oi", the composed instruction contains "Diga oi" and
\* "<feliz>, <breath>, <emphasis_soft>, <emphasis_medium>, <emphasis_strong>".
C9_Original ==
    (/\ emotion_tags_data = ExampleVocabulary
     /\ final_prompt = DigaOi
     /\ Composed)
        => /\ Contains(prompt_com_ferramentas, DigaOi)
           /\ Contains(prompt_com_ferramentas, SpecExampleTagList)

\* C9 amended: the composed instruction contains "Diga oi" and, as its tag
\* list, "<breath>, <emphasis_medium>, <emphasis_soft>, <emphasis_strong>,
\* <feliz>".
C9_Amended ==
    (/\ emotion_tags_data = ExampleVocabulary
     /\ final_prompt = DigaOi
     /\ Composed)
        => /\ Contains(prompt_com_ferramentas, DigaOi)
           /\ available_tags = SortedExampleTagList
           /\ Contains(prompt_com_ferramentas, SortedExampleTagList)

C9_Witness ==
    /\ emotion_tags_data = ExampleVocabulary
    /\ body.kind = "object" /\ body.fields = [prompt |-> DigaOi]
    /\ pc = "Calling"
    /\ Composed

\* C10: an exception raised while building the tag string, composing the
\* instruction or calling the model is terminal: it is logged before the
\* response is produced, the request ends with HTTP 500 whose error field
\* carries the exception's description, and the model is called at most
\* once in the request.
C10_ExceptionIsTerminal ==
    route = "humanize" =>
        /\ modelCalls <= 1
        /\ exc.raised => pc \in {"Except", "ExceptResponding", "done"}
        /\ pc = "Except" => (exc.raised /\ response = NoResponse)
        /\ pc = "ExceptResponding" =>
              (/\ exc.raised
               /\ response = NoResponse
               /\ log = <<LogPrefix \o exc.msg>>)
        /\ (exc.raised /\ pc = "done") =>
              (/\ log = <<LogPrefix \o exc.msg>>
               /\ response.status = 500
               /\ response.kind = "error"
               /\ response.text = InternalErrorPrefix \o exc.msg
               /\ Len(exc.msg) > 0)

C10_Witness ==
    /\ route = "humanize"
    /\ pc = "done"
    /\ exc.raised /\ exc.msg = QuotaMsg
    /\ modelCalls = 1
    /\ response.status = 500

=============================================================================
